---- MODULE Spec2Model ----
(***************************************************************************)
(* A model of char2fonts.py: which installed fonts contain a character.    *)
(*                                                                         *)
(* Python values are modelled as follows.                                  *)
(*   str            a sequence of codepoints (<<65>> is "A", <<>> is "")   *)
(*   bytes          a sequence of byte values                              *)
(*   TTFont | None  a record; None is the record NoneFont                  *)
(*   a call result  [exc |-> "" or the exception's name, val |-> value]    *)
(*                                                                         *)
(* Three specifications share the definitions:                             *)
(*   SpecFont  one call of char_in_font or get_font_name on drawn inputs   *)
(*   SpecLoad  a caller of load_font (the memoised loader) alone           *)
(*   Spec      a run of main() from the command line to process exit       *)
(***************************************************************************)
EXTENDS Integers, Sequences, FiniteSets, TLC

VARIABLES
    \* ---- main() and find_fonts_for_char() ----
    pc,          \* position of the process
    argv,        \* sys.argv[1:]
    font_paths,  \* the list discover_fonts() returned
    qi,          \* index in argv of the character being queried
    fi,          \* index in font_paths of the path being visited
    found,       \* the local `found` of find_fonts_for_char
    out,         \* the <<font_name, fontpath>> lines printed by the current query
    noneLine,    \* "No fonts found ..." was printed by the current query
    usage,       \* the usage message was printed
    exitStatus,  \* process exit status, -1 while running
    nDiscover,   \* calls of discover_fonts
    nFind,       \* calls of find_fonts_for_char
    \* ---- load_font and its lru_cache ----
    cache,       \* the cache entries, least recently used first
    reads,       \* per path: number of TTFont(fontpath) constructions
    lastAccess,  \* per path: clock of the last load_font call on it, 0 = never
    clock,       \* number of load_font calls so far
    lastCall,    \* the last load_font call: [path, hit, ret, evicted]
    \* ---- the caller of SpecLoad ----
    scanned,     \* paths 1..scanned have been requested in scan order
    revisits,    \* number of re-requests of a hot path
    \* ---- SpecFont ----
    fn_call,     \* the call: [fn, font, unicode_char]
    fn_ret       \* its result, NoRet before the call returns

vars == <<pc, argv, font_paths, qi, fi, found, out, noneLine, usage, exitStatus,
          nDiscover, nFind, cache, reads, lastAccess, clock, lastCall,
          scanned, revisits, fn_call, fn_ret>>

mainVars == <<pc, argv, font_paths, qi, fi, found, out, noneLine, usage,
              exitStatus, nDiscover, nFind>>
cacheVars == <<cache, reads, lastAccess, clock, lastCall>>
callerVars == <<scanned, revisits>>
fnVars == <<fn_call, fn_ret>>

(***************************************************************************)
(* Bounds of the model.                                                    *)
(***************************************************************************)
MaxTables == 2      \* cmap sub-tables per drawn font
MaxNames == 2       \* naming records per drawn font
MaxArgs == 2        \* command-line characters
SmallFonts == 3     \* paths of a small font directory
ExtraFonts == 1     \* a large font directory holds up to maxsize + ExtraFonts paths
MaxRevisits == 2    \* re-requests of a hot path in SpecLoad

(***************************************************************************)
(* Program constants.                                                      *)
(***************************************************************************)
maxsize == 512

\* "Unknown font" as codepoints
UnknownFont == <<85, 110, 107, 110, 111, 119, 110, 32, 102, 111, 110, 116>>

Ok(v) == [exc |-> "", val |-> v]
Raise(e) == [exc |-> e, val |-> <<>>]
NoRet == [exc |-> "pending", val |-> <<>>]

(***************************************************************************)
(* Fonts.                                                                  *)
(***************************************************************************)
NoneFont == [loaded |-> FALSE, hasCmap |-> FALSE, tables |-> <<>>,
             hasName |-> FALSE, names |-> <<>>]

\* A parsed font: whether it has a cmap table and its sub-tables, whether
\* it has a name table and its records.  A sub-table's cmap keeps every
\* codepoint the table maps, glyph 0 (.notdef) included.  The tables of a
\* font that parsed are taken to decompile without error.
TTFontOf(hc, ts, hn, ns) ==
    [loaded |-> TRUE, hasCmap |-> hc, tables |-> ts, hasName |-> hn, names |-> ns]

\* fontTools CmapSubtable.isUnicode(): platform 0, or platform 3 with
\* encoding 0, 1 or 10.
isUnicode(cmap) ==
    \/ cmap.platformID = 0
    \/ cmap.platformID = 3 /\ cmap.platEncID \in {0, 1, 10}

\* ord(): defined on strings of length one only.
ord(s) == IF Len(s) = 1 THEN Ok(s[1]) ELSE Raise("TypeError")

\* The loop of char_in_font over font["cmap"].tables, from index i on.
RECURSIVE ScanTables(_, _, _)
ScanTables(unicode_char, tables, i) ==
    IF i > Len(tables) THEN Ok(FALSE)
    ELSE IF isUnicode(tables[i])
         THEN LET o == ord(unicode_char) IN
              IF o.exc # "" THEN Raise(o.exc)
              ELSE IF o.val \in DOMAIN tables[i].cmap THEN Ok(TRUE)
              ELSE ScanTables(unicode_char, tables, i + 1)
         ELSE ScanTables(unicode_char, tables, i + 1)

\* A variant that evaluates ord(unicode_char) once, before the loop.
char_in_font_hoisted(unicode_char, font) ==
    IF ~font.loaded THEN Raise("TypeError")
    ELSE IF ~font.hasCmap THEN Ok(FALSE)
    ELSE IF ord(unicode_char).exc # "" THEN Raise(ord(unicode_char).exc)
    ELSE ScanTables(unicode_char, font.tables, 1)

\* `"cmap" not in font` raises TypeError when font is None.
char_in_font(unicode_char, font) ==
    IF ~font.loaded THEN Raise("TypeError")
    ELSE IF ~font.hasCmap THEN Ok(FALSE)
    ELSE ScanTables(unicode_char, font.tables, 1)

\* bytes.decode("utf_16_be"), strict: the code units of a byte string.
RECURSIVE Units(_)
Units(b) ==
    IF Len(b) = 0 THEN <<>>
    ELSE <<b[1] * 256 + b[2]>> \o Units(SubSeq(b, 3, Len(b)))

IsHigh(u) == u >= 55296 /\ u <= 56319
IsLow(u) == u >= 56320 /\ u <= 57343

RECURSIVE DecodeUnits(_)
DecodeUnits(u) ==
    IF Len(u) = 0 THEN Ok(<<>>)
    ELSE IF IsHigh(u[1])
         THEN IF Len(u) >= 2 /\ IsLow(u[2])
              THEN LET rest == DecodeUnits(SubSeq(u, 3, Len(u))) IN
                   IF rest.exc # "" THEN rest
                   ELSE Ok(<<65536 + (u[1] - 55296) * 1024 + (u[2] - 56320)>>
                           \o rest.val)
              ELSE Raise("UnicodeDecodeError")
    ELSE IF IsLow(u[1]) THEN Raise("UnicodeDecodeError")
    ELSE LET rest == DecodeUnits(Tail(u)) IN
         IF rest.exc # "" THEN rest ELSE Ok(<<u[1]>> \o rest.val)

\* NameRecord.toUnicode() of a platform 3 / encoding 1 record.
toUnicode(record) ==
    IF Len(record.string) % 2 = 1 THEN Raise("UnicodeDecodeError")
    ELSE DecodeUnits(Units(record.string))

\* A variant that does not look at the encoding identifier.
NameMatch_anyEncoding(record) ==
    /\ record.nameID \in {1, 4}
    /\ record.platformID = 3

\* The condition of line 43.
NameMatch(record) ==
    /\ record.nameID \in {1, 4}
    /\ record.platformID = 3
    /\ record.platEncID = 1

\* The loop of get_font_name over font["name"].names, from index i on,
\* inside the try block.
RECURSIVE ScanNames(_, _)
ScanNames(names, i) ==
    IF i > Len(names) THEN Ok(UnknownFont)
    ELSE IF NameMatch(names[i]) THEN toUnicode(names[i])
    ELSE ScanNames(names, i + 1)

get_font_name(font) ==
    LET body == IF font.hasName THEN ScanNames(font.names, 1)
                ELSE Ok(UnknownFont)
    IN  IF body.exc # "" THEN Ok(UnknownFont) ELSE body

\* get_char_description: unicodedata.name raises TypeError unless the
\* argument is one character; its ValueError (unnamed character) is caught.
get_char_description(char) ==
    IF Len(char) # 1 THEN Raise("TypeError") ELSE Ok(char)

(***************************************************************************)
(* Inputs of SpecFont.                                                     *)
(***************************************************************************)
\* (platformID, platEncID): Unicode 2.0, Macintosh Roman, Windows Symbol,
\* Windows Unicode BMP, Windows ShiftJIS
Schemes == {<<0, 3>>, <<1, 0>>, <<3, 0>>, <<3, 1>>, <<3, 2>>}

\* codepoint -> glyph identifier maps of a sub-table
Cmaps == {f \in UNION {[D -> {0, 1, 5}] : D \in SUBSET {0, 65}} :
            /\ (0 \in DOMAIN f => f[0] = 1)
            /\ (65 \in DOMAIN f => f[65] \in {0, 5})}

Subtables == {[platformID |-> s[1], platEncID |-> s[2], cmap |-> m] :
                s \in Schemes, m \in Cmaps}

SeqsUpTo(S, n) == UNION {[1..k -> S] : k \in 0..n}

CmapFonts == {TTFontOf(FALSE, <<>>, FALSE, <<>>)} \cup
             {TTFontOf(TRUE, ts, FALSE, <<>>) : ts \in SeqsUpTo(Subtables, MaxTables)}

\* "A", "\x00", "B", "AB", ""
Queries == {<<65>>, <<0>>, <<66>>, <<65, 66>>, <<>>}

\* UTF-16-BE "F", "F" followed by U+1F600, a truncated string, a lone
\* high surrogate
NameStrings == {<<0, 70>>, <<0, 70, 216, 61, 222, 0>>, <<0>>, <<216, 0>>}

NameRecords == {[nameID |-> n, platformID |-> p, platEncID |-> e, string |-> s] :
                  n \in {1, 2, 4}, p \in {1, 3}, e \in {0, 1}, s \in NameStrings}

NameFonts == {TTFontOf(FALSE, <<>>, FALSE, <<>>)} \cup
             {TTFontOf(FALSE, <<>>, TRUE, ns) : ns \in SeqsUpTo(NameRecords, MaxNames)}

(***************************************************************************)
(* The files on disk.  Paths are numbered; the file kinds repeat with      *)
(* period four: an unparsable file, a font covering "A" and U+0000 with a  *)
(* Windows Unicode full name, a font with a Macintosh table only and no    *)
(* naming table, a font without a cmap table.                              *)
(***************************************************************************)
FontA == TTFontOf(TRUE,
                  <<[platformID |-> 3, platEncID |-> 1, cmap |-> (0 :> 1) @@ (65 :> 5)]>>,
                  TRUE,
                  <<[nameID |-> 2, platformID |-> 3, platEncID |-> 1, string |-> <<0, 66, 0, 97>>],
                    [nameID |-> 4, platformID |-> 3, platEncID |-> 1, string |-> <<0, 70>>]>>)

FontMac == TTFontOf(TRUE,
                    <<[platformID |-> 1, platEncID |-> 0, cmap |-> (65 :> 5)]>>,
                    FALSE, <<>>)

FontBare == TTFontOf(FALSE, <<>>, TRUE,
                     <<[nameID |-> 1, platformID |-> 3, platEncID |-> 1, string |-> <<0>>]>>)

Disk(fontpath) ==
    CASE fontpath % 4 = 1 -> NoneFont
      [] fontpath % 4 = 2 -> FontA
      [] fontpath % 4 = 3 -> FontMac
      [] OTHER -> FontBare

\* TTFont(fontpath): raises on a file that does not parse.
TTFont(fontpath) ==
    IF Disk(fontpath).loaded THEN Ok(Disk(fontpath)) ELSE Raise("TTLibError")

\* The body of load_font (lines 63-66).
load_font_body(fontpath) ==
    LET r == TTFont(fontpath) IN IF r.exc # "" THEN NoneFont ELSE r.val

(***************************************************************************)
(* functools.lru_cache(maxsize): entries least recently used first.        *)
(***************************************************************************)
Keys(c) == {c[i].key : i \in 1..Len(c)}

IndexOf(c, k) == CHOOSE i \in 1..Len(c) : c[i].key = k

\* A variant that leaves a hit entry where it is (first in, first out).
Touch_fifo(c, k) == c

\* a hit moves the entry to the most recently used end
Touch(c, k) ==
    LET i == IndexOf(c, k) IN
    SubSeq(c, 1, i - 1) \o SubSeq(c, i + 1, Len(c)) \o <<c[i]>>

\* a miss on a full cache replaces the least recently used entry
Insert(c, k, v) ==
    IF Len(c) >= maxsize THEN Append(Tail(c), [key |-> k, result |-> v])
    ELSE Append(c, [key |-> k, result |-> v])

\* A variant that memoises successful loads only.
load_font_successOnly(c, fontpath) ==
    IF fontpath \in Keys(c)
    THEN [cache |-> Touch(c, fontpath), hit |-> TRUE,
          ret |-> c[IndexOf(c, fontpath)].result, evicted |-> 0]
    ELSE LET v == load_font_body(fontpath) IN
         IF v.loaded
         THEN [cache |-> Insert(c, fontpath, v), hit |-> FALSE, ret |-> v,
               evicted |-> IF Len(c) >= maxsize THEN c[1].key ELSE 0]
         ELSE [cache |-> c, hit |-> FALSE, ret |-> v, evicted |-> 0]

\* A variant without the decorator: every call parses the file.
load_font_uncached(c, fontpath) ==
    [cache |-> c, hit |-> FALSE, ret |-> load_font_body(fontpath), evicted |-> 0]

\* load_font(fontpath) on cache c: the new cache and what the call did
load_font(c, fontpath) ==
    IF fontpath \in Keys(c)
    THEN [cache |-> Touch(c, fontpath), hit |-> TRUE,
          ret |-> c[IndexOf(c, fontpath)].result, evicted |-> 0]
    ELSE LET v == load_font_body(fontpath) IN
         [cache |-> Insert(c, fontpath, v), hit |-> FALSE, ret |-> v,
          evicted |-> IF Len(c) >= maxsize THEN c[1].key ELSE 0]

MaxPaths == maxsize + ExtraFonts + 1
Paths == 1..MaxPaths

NoCall == [path |-> 0, hit |-> FALSE, ret |-> NoneFont, evicted |-> 0]

\* A load_font call as a step: the cache and the bookkeeping of the call.
CallLoadFont(fontpath, r) ==
    /\ cache' = r.cache
    /\ reads' = IF r.hit THEN reads
                ELSE [reads EXCEPT ![fontpath] = reads[fontpath] + 1]
    /\ clock' = clock + 1
    /\ lastAccess' = [lastAccess EXCEPT ![fontpath] = clock + 1]
    /\ lastCall' = [path |-> fontpath, hit |-> r.hit, ret |-> r.ret,
                    evicted |-> r.evicted]

CacheInit ==
    /\ cache = <<>>
    /\ reads = [p \in Paths |-> 0]
    /\ lastAccess = [p \in Paths |-> 0]
    /\ clock = 0
    /\ lastCall = NoCall

MainIdle ==
    /\ pc = "idle"
    /\ argv = <<>>
    /\ font_paths = <<>>
    /\ qi = 0
    /\ fi = 0
    /\ found = FALSE
    /\ out = <<>>
    /\ noneLine = FALSE
    /\ usage = FALSE
    /\ exitStatus = -1
    /\ nDiscover = 0
    /\ nFind = 0

CallerIdle == scanned = 0 /\ revisits = 0

FnIdle == fn_call = [fn |-> "", font |-> NoneFont, unicode_char |-> <<>>] /\ fn_ret = NoRet

(***************************************************************************)
(* SpecFont: one call of a pure function on drawn inputs.                  *)
(***************************************************************************)
InitFont ==
    /\ MainIdle /\ CacheInit /\ CallerIdle
    /\ fn_ret = NoRet
    /\ \/ \E c \in Queries, f \in CmapFonts :
             fn_call = [fn |-> "char_in_font", font |-> f, unicode_char |-> c]
       \/ \E f \in NameFonts :
             fn_call = [fn |-> "get_font_name", font |-> f, unicode_char |-> <<>>]

CallCharInFont ==
    /\ fn_call.fn = "char_in_font"
    /\ fn_ret = NoRet
    /\ fn_ret' = char_in_font(fn_call.unicode_char, fn_call.font)
    /\ UNCHANGED <<fn_call, mainVars, cacheVars, callerVars>>

CallGetFontName ==
    /\ fn_call.fn = "get_font_name"
    /\ fn_ret = NoRet
    /\ fn_ret' = get_font_name(fn_call.font)
    /\ UNCHANGED <<fn_call, mainVars, cacheVars, callerVars>>

NextFont == CallCharInFont \/ CallGetFontName

SpecFont == InitFont /\ [][NextFont]_vars

(***************************************************************************)
(* SpecLoad: a caller scans paths 1, 2, 3, ... through load_font and, at   *)
(* the scan positions RevisitAt, requests a hot path again.                *)
(***************************************************************************)
HotPaths == {1, 2, 3}
RevisitAt == {3, maxsize - 1, maxsize, maxsize + 1}

InitLoad == MainIdle /\ CacheInit /\ CallerIdle /\ FnIdle

Scan ==
    /\ scanned < maxsize + ExtraFonts
    /\ scanned' = scanned + 1
    /\ CallLoadFont(scanned + 1, load_font(cache, scanned + 1))
    /\ UNCHANGED <<revisits, mainVars, fnVars>>

Revisit ==
    /\ scanned \in RevisitAt
    /\ revisits < MaxRevisits
    /\ \E p \in HotPaths :
          /\ p <= scanned
          /\ CallLoadFont(p, load_font(cache, p))
    /\ revisits' = revisits + 1
    /\ UNCHANGED <<scanned, mainVars, fnVars>>

NextLoad == Scan \/ Revisit

SpecLoad == InitLoad /\ [][NextLoad]_vars

(***************************************************************************)
(* Spec: a run of main().                                                  *)
(***************************************************************************)
\* "A", "\x00", "AB"
Args == {<<65>>, <<0>>, <<65, 66>>}

Range(q) == {q[i] : i \in 1..Len(q)}

\* What discover_fonts() can return: the distinct paths of a small
\* directory in any order, or the paths 1..n of a large one.
DirListings ==
    {l \in SeqsUpTo(1..SmallFonts, SmallFonts) : Cardinality(Range(l)) = Len(l)}
    \cup {[i \in 1..n |-> i] : n \in maxsize..(maxsize + ExtraFonts)}

Init ==
    /\ pc = "main"
    /\ argv \in SeqsUpTo(Args, MaxArgs)
    /\ font_paths = <<>>
    /\ qi = 0
    /\ fi = 0
    /\ found = FALSE
    /\ out = <<>>
    /\ noneLine = FALSE
    /\ usage = FALSE
    /\ exitStatus = -1
    /\ nDiscover = 0
    /\ nFind = 0
    /\ CacheInit /\ CallerIdle /\ FnIdle

\* A variant without sys.exit(1): the usage message, then the scan.
MainUsage_noExit ==
    /\ pc = "main"
    /\ argv = <<>>
    /\ usage' = TRUE
    /\ font_paths' \in DirListings
    /\ nDiscover' = nDiscover + 1
    /\ qi' = 1
    /\ pc' = "for_char"
    /\ UNCHANGED <<argv, fi, found, out, noneLine, exitStatus, nFind,
                   cacheVars, callerVars, fnVars>>

\* main, lines 88-91: no arguments
MainUsage ==
    /\ pc = "main"
    /\ argv = <<>>
    /\ usage' = TRUE
    /\ exitStatus' = 1
    /\ pc' = "exited"
    /\ UNCHANGED <<argv, font_paths, qi, fi, found, out, noneLine, nDiscover,
                   nFind, cacheVars, callerVars, fnVars>>

\* main, lines 93-95
discover_fonts ==
    /\ pc = "main"
    /\ argv # <<>>
    /\ font_paths' \in DirListings
    /\ nDiscover' = nDiscover + 1
    /\ qi' = 1
    /\ pc' = "for_char"
    /\ UNCHANGED <<argv, fi, found, out, noneLine, usage, exitStatus, nFind,
                   cacheVars, callerVars, fnVars>>

\* find_fonts_for_char, lines 71-74; an exception of get_char_description
\* is caught nowhere and ends the process.
FindStart ==
    /\ pc = "for_char"
    /\ qi <= Len(argv)
    /\ nFind' = nFind + 1
    /\ out' = <<>>
    /\ noneLine' = FALSE
    /\ IF get_char_description(argv[qi]).exc # ""
       THEN /\ pc' = "exited"
            /\ exitStatus' = 1
            /\ UNCHANGED <<found, fi>>
       ELSE /\ pc' = "for_fontpath"
            /\ found' = FALSE
            /\ fi' = 1
            /\ UNCHANGED exitStatus
    /\ UNCHANGED <<argv, font_paths, qi, usage, nDiscover, cacheVars,
                   callerVars, fnVars>>

\* A variant of line 77 without the `font and` guard.
Line77_noGuard(font, char) == char_in_font(char, font)

\* line 77: `font and char_in_font(char, font)`.  None is falsy; a TTFont
\* is truthy (its length counts its tables, and GlyphOrder is always one).
Line77(font, char) ==
    IF font.loaded THEN char_in_font(char, font) ELSE Ok(FALSE)

\* find_fonts_for_char, lines 75-80: one iteration of the loop
FindStep ==
    /\ pc = "for_fontpath"
    /\ fi <= Len(font_paths)
    /\ LET fontpath == font_paths[fi]
           r == load_font(cache, fontpath)
           font == r.ret
           cif == Line77(font, argv[qi])
       IN  /\ CallLoadFont(fontpath, r)
           /\ IF cif.exc # ""
              THEN /\ pc' = "exited"
                   /\ exitStatus' = 1
                   /\ UNCHANGED <<fi, found, out>>
              ELSE /\ fi' = fi + 1
                   /\ IF cif.val
                      THEN /\ out' = Append(out, <<get_font_name(font).val, fontpath>>)
                           /\ found' = TRUE
                      ELSE UNCHANGED <<found, out>>
                   /\ UNCHANGED <<pc, exitStatus>>
    /\ UNCHANGED <<argv, font_paths, qi, noneLine, usage, nDiscover, nFind,
                   callerVars, fnVars>>

\* find_fonts_for_char, lines 82-83, and the return to the loop of main
FindEnd ==
    /\ pc = "for_fontpath"
    /\ fi > Len(font_paths)
    /\ noneLine' = ~found
    /\ qi' = qi + 1
    /\ pc' = "for_char"
    /\ UNCHANGED <<argv, font_paths, fi, found, out, usage, exitStatus,
                   nDiscover, nFind, cacheVars, callerVars, fnVars>>

\* main returns after the last character
MainReturn ==
    /\ pc = "for_char"
    /\ qi > Len(argv)
    /\ pc' = "exited"
    /\ exitStatus' = 0
    /\ UNCHANGED <<argv, font_paths, qi, fi, found, out, noneLine, usage,
                   nDiscover, nFind, cacheVars, callerVars, fnVars>>

Next == MainUsage \/ discover_fonts \/ FindStart \/ FindStep \/ FindEnd \/ MainReturn

Spec == Init /\ [][Next]_vars

(***************************************************************************)
(* Properties.                                                             *)
(***************************************************************************)
Returned(fn) == fn_call.fn = fn /\ fn_ret # NoRet

\* Some Unicode sub-table of font maps codepoint cp to a non-zero glyph.
MapsToGlyph(font, cp) ==
    /\ font.hasCmap
    /\ \E i \in 1..Len(font.tables) :
          /\ isUnicode(font.tables[i])
          /\ cp \in DOMAIN font.tables[i].cmap
          /\ font.tables[i].cmap[cp] # 0

\* C1 (SpecFont): for a one-character query, char_in_font returns True
\* exactly when some Unicode sub-table maps the codepoint to a non-zero
\* glyph identifier; a Unicode entry with glyph identifier zero is no support.
C1_NonZeroGlyph ==
    (Returned("char_in_font") /\ Len(fn_call.unicode_char) = 1) =>
        /\ fn_ret.exc = ""
        /\ fn_ret.val <=> MapsToGlyph(fn_call.font, fn_call.unicode_char[1])

\* C5 (SpecFont): char_in_font returns False without raising when the query
\* is U+0000 or is not one character, whatever the font's tables hold.
C5_DefensiveFalse ==
    (Returned("char_in_font")
       /\ (fn_call.unicode_char = <<0>> \/ Len(fn_call.unicode_char) # 1)) =>
        /\ fn_ret.exc = ""
        /\ fn_ret.val = FALSE

\* C9 (SpecFont): a font without a cmap table, or with an empty list of
\* sub-tables, gives False for every query input and never raises.
C9_NoTablesFalse ==
    (Returned("char_in_font")
       /\ (~fn_call.font.hasCmap \/ fn_call.font.tables = <<>>)) =>
        /\ fn_ret.exc = ""
        /\ fn_ret.val = FALSE

C9_Witness ==
    /\ Returned("char_in_font")
    /\ fn_call.font.hasCmap
    /\ fn_call.font.tables = <<>>
    /\ fn_call.unicode_char = <<65, 66>>
    /\ fn_ret.exc = ""

\* The records the claim selects: nameID 1 or 4, platformID 3, platEncID 1.
C7_Selected(names) ==
    {i \in 1..Len(names) :
        /\ names[i].nameID = 1 \/ names[i].nameID = 4
        /\ names[i].platformID = 3
        /\ names[i].platEncID = 1}

C7_First(names) ==
    CHOOSE i \in C7_Selected(names) : \A j \in C7_Selected(names) : i <= j

\* C7 (SpecFont): get_font_name never raises; it returns the decoded text of
\* the first selected naming record when there is one and it decodes, and
\* "Unknown font" otherwise.
C7_FirstNameOrUnknown ==
    Returned("get_font_name") =>
        LET font == fn_call.font IN
        /\ fn_ret.exc = ""
        /\ IF font.hasName /\ C7_Selected(font.names) # {}
              /\ toUnicode(font.names[C7_First(font.names)]).exc = ""
           THEN fn_ret.val = toUnicode(font.names[C7_First(font.names)]).val
           ELSE fn_ret.val = UnknownFont

C7_Witness ==
    /\ Returned("get_font_name")
    /\ Len(fn_call.font.names) = 2
    /\ C7_Selected(fn_call.font.names) = {2}
    /\ fn_call.font.names[1].platformID = 3
    /\ fn_call.font.names[1].nameID = 4
    /\ fn_ret.val = <<70>>

\* The number of distinct paths other than p requested since the last
\* load_font call with p.
OthersSince(p) == Cardinality({q \in Paths : lastAccess[q] > lastAccess[p]})

IsCall == clock' = clock + 1

\* C2 as stated (SpecLoad): a path whose parse failed is parsed at most once
\* in the run, however many other paths are loaded in between.
C2_ParsedAtMostOnce ==
    \A p \in Paths : ~Disk(p).loaded => reads[p] <= 1

\* C2 as amended (SpecLoad): a later load_font call with a path whose parse
\* failed returns None without reading the file when fewer than maxsize
\* distinct other paths were requested since the previous call with it, and
\* parses the file again when maxsize or more were.
C2_CachedUntilEvicted ==
    [][\A p \in Paths :
          (IsCall /\ lastCall'.path = p /\ ~Disk(p).loaded /\ lastAccess[p] > 0) =>
              /\ ~lastCall'.ret.loaded
              /\ IF OthersSince(p) < maxsize
                 THEN reads'[p] = reads[p] /\ lastCall'.hit
                 ELSE reads'[p] = reads[p] + 1]_vars

C2_Witness ==
    /\ lastCall.path = 1
    /\ ~Disk(1).loaded
    /\ lastCall.hit
    /\ ~lastCall.ret.loaded
    /\ reads[1] = 1
    /\ scanned = maxsize

Entries(c) == {c[i] : i \in 1..Len(c)}

C10_Bounded ==
    /\ Len(cache) <= 512
    /\ Cardinality(Keys(cache)) = Len(cache)

C10_Step ==
    IsCall =>
        LET p == lastCall'.path
            gone == Keys(cache) \ Keys(cache')
            changed == {e.key : e \in Entries(cache) \ Entries(cache')}
        IN  /\ IF p \notin Keys(cache) /\ Len(cache) = 512
               THEN /\ Cardinality(gone) = 1
                    /\ \A e \in gone : \A i \in 1..Len(cache) :
                          lastAccess[e] <= lastAccess[cache[i].key]
               ELSE gone = {}
            /\ Keys(cache') = (Keys(cache) \ gone) \cup {p}
            /\ changed \cap Keys(cache') = {}

\* C10 (SpecLoad): the cache holds at most 512 entries, one per path at
\* most; a call for an uncached path on a full cache evicts exactly the
\* entry accessed least recently and no other call evicts; an entry's value
\* stays as inserted while it is cached.
C10_LruCache == []C10_Bounded /\ [][C10_Step]_vars

C10_Witness ==
    /\ Len(cache) = 512
    /\ lastCall.evicted = 2
    /\ 1 \in Keys(cache)
    /\ lastAccess[1] > lastAccess[2]

\* C3 as stated (Spec): in a run of main each font file is read from disk
\* at most once, for a font list of any length.
C3_ReadAtMostOnce ==
    \A p \in Paths : reads[p] <= 1

\* C3 as amended (Spec): when the font list holds at most maxsize paths,
\* each font file is read at most once in the run and every load_font call
\* of the second and later queries is a cache hit.
C3_ReadOnceWithinCapacity ==
    Len(font_paths) <= maxsize =>
        /\ \A p \in Paths : reads[p] <= 1
        /\ (qi >= 2 /\ clock > Len(font_paths)) => lastCall.hit

C3_Witness ==
    /\ Len(font_paths) = maxsize
    /\ qi = 2
    /\ pc = "for_fontpath"
    /\ fi = maxsize
    /\ lastCall.hit
    /\ \A p \in 1..maxsize : reads[p] = 1

\* C4 (Spec): whatever the query argument and the font list, a call of
\* find_fonts_for_char visits every path and returns normally, so a run
\* that started a query never dies of an exception.
C4_QueryNeverAborts ==
    (pc = "exited" /\ nFind > 0) =>
        /\ exitStatus = 0
        /\ fi > Len(font_paths)

\* The paths of font_paths that load and whose font contains char.
C6_Expected(char) ==
    LET Keep(p) == Disk(p).loaded /\ char_in_font(char, Disk(p)).val
    IN  SelectSeq(font_paths, Keep)

\* C6 (Spec): a finished query of a character has printed exactly the paths
\* that load and whose font contains the character, once each, in the order
\* of the font list; the "No fonts found" line iff it printed no path; and
\* a query of a character never ends the run with an error.
C6_ReportsInOrder ==
    /\ (pc = "for_char" /\ qi > 1) =>
          /\ [i \in 1..Len(out) |-> out[i][2]] = C6_Expected(argv[qi - 1])
          /\ noneLine <=> (out = <<>>)
    /\ (pc = "exited" /\ exitStatus = 1 /\ nFind > 0) => Len(argv[qi]) # 1

C6_Witness ==
    /\ pc = "for_char"
    /\ qi > 1
    /\ Len(font_paths) = 3
    /\ ~Disk(font_paths[1]).loaded
    /\ Len(out) = 1
    /\ out[1][2] = font_paths[3]
    /\ ~noneLine

\* C8 (Spec): without arguments main prints the usage message and exits
\* non-zero, and discover_fonts, load_font and find_fonts_for_char are never
\* called; with arguments discover_fonts is called once, before any query.
C8_UsageBeforeScanning ==
    /\ argv = <<>> =>
          /\ nDiscover = 0 /\ clock = 0 /\ nFind = 0
          /\ pc = "exited" => (usage /\ exitStatus > 0)
    /\ argv # <<>> =>
          /\ ~usage
          /\ nDiscover = (IF pc = "main" THEN 0 ELSE 1)
          /\ (nFind > 0 \/ clock > 0) => nDiscover = 1

C8_Witness ==
    /\ argv = <<>>
    /\ pc = "exited"
    /\ usage
    /\ exitStatus = 1

====
